---- MODULE Spec2Model ----
(***************************************************************************)
(* gps-display.py: the GPSMapDisplay object shared by the D-Bus listener   *)
(* thread (on_gpsd_fix) and the pygame frame loop (run).  Both threads     *)
(* call load_map_tile on the same unlocked attributes.                     *)
(*                                                                         *)
(* Units.  Longitudes and latitudes are integers in micro-degrees, the     *)
(* clock is in whole seconds.  Floats that are not numbers are tagged      *)
(* values (see Num, NaN, Inf, Bad).                                        *)
(*                                                                         *)
(* Granularity.  A thread is preempted only between the steps named by     *)
(* their first source line (l161, l180, l191, l200, l214, l139, l140,      *)
(* l143): each step holds at most one blocking call (file read, HTTP       *)
(* request, file write) or one pygame drawing call on self.map_tile.       *)
(***************************************************************************)
EXTENDS Integers, Sequences, FiniteSets, TLC

VARIABLES
    now,                     \* time.time(), whole seconds
    zoom,                    \* self.zoom
    map_center,              \* self.map_center = <<lon, lat>>
    current_location,        \* self.current_location
    map_tile,                \* the surface self.map_tile refers to
    last_tile_coords,        \* self.last_tile_coords = <<x, y, zoom>>
    last_tile_download_time, \* self.last_tile_download_time
    cache,                   \* files of map_cache/: tile key -> image
    pc,                      \* position of each thread
    loc,                     \* locals of each thread's load_map_tile call
    calls,                   \* load_map_tile calls made since construction
    fix_result,              \* history: what became of the latest fix event
    store_time               \* history: current_time of the latest call of a
                             \*          fix or key handler that went on to the
                             \*          cache lookup, 0 before the first

vars == <<now, zoom, map_center, current_location, map_tile,
          last_tile_coords, last_tile_download_time, cache,
          pc, loc, calls, fix_result, store_time>>

----------------------------------------------------------------------------
(* Bounds of the model *)

MaxTime == 2          \* seconds of clock modelled after construction
MaxCalls == 2         \* load_map_tile calls modelled after construction

----------------------------------------------------------------------------
(* Program constants *)

download_cooldown == 2
tile_size == 256
edge_buffer_pixels == (tile_size * 10) \div 100
InitialZoom == 16
ZoomMin == 2
ZoomMax == 18
FixFields == 15

Threads == {"fix", "render"}

----------------------------------------------------------------------------
(* Values *)

Num(n) == [k |-> "num", v |-> n]
NaN    == [k |-> "nan", v |-> 0]
Inf    == [k |-> "inf", v |-> 0]
Bad    == [k |-> "bad", v |-> 0]      \* a value float() / int() rejects
None   == [k |-> "none", v |-> 0]

IsFinite(val) == val.k = "num"

\* Python truth value of a float-or-None
Truthy(val) == val.k \in {"inf", "nan"} \/ (val.k = "num" /\ val.v # 0)

\* <<lon, lat>> in micro-degrees: the default self.map_center, and the
\* point at pixel (100, 150) of the default centre's tile at zoom 16
DefaultCenter == <<-787166, 51617864>>
InnerPoint    == <<-788859, 51616011>>

\* points of the same tile next to its edges, named by the edge and the
\* side of the buffer limit they lie on: pixels (24, 128), (25, 128),
\* (231, 128), (232, 128), (128, 24), (128, 25), (128, 231), (128, 232)
LeftIn    == <<-790494, 51616307>>
LeftOut   == <<-790473, 51616307>>
RightOut  == <<-786052, 51616307>>
RightIn   == <<-786031, 51616307>>
TopIn     == <<-788263, 51617693>>
TopOut    == <<-788263, 51617679>>
BottomOut == <<-788263, 51614935>>
BottomIn  == <<-788263, 51614921>>

\* the antimeridian, and a latitude above the Mercator band (85.0511)
EastEdge == <<180000000, 51617864>>
HighLat  == <<-787166, 85054000>>

NoLocation == [latitude |-> None, longitude |-> None, mode |-> 0]
NoCoords   == <<0, 0, 0>>

\* Surfaces.  img: what was loaded or created; fill/draw: the fallback
\* pattern's background fill and its grid, crosshair and text.
NoTile         == [img |-> "none", key |-> NoCoords, fill |-> FALSE, draw |-> FALSE]
NewSurface     == [img |-> "blank", key |-> NoCoords, fill |-> FALSE, draw |-> FALSE]
TileImage(key) == [img |-> "tile", key |-> key, fill |-> FALSE, draw |-> FALSE]
CorruptFile    == [img |-> "corrupt", key |-> NoCoords, fill |-> FALSE, draw |-> FALSE]

\* no upper limit
MinFirst(a, b) == a

Min(a, b) == IF a < b THEN a ELSE b

Max(a, b) == IF a > b THEN a ELSE b

----------------------------------------------------------------------------
(* Coordinate arithmetic *)

TruncDiv(a, b) == IF a >= 0 THEN a \div b ELSE -((-a) \div b)

\* trunc(a * 2^n / d) for a >= 0, by binary long division
RECURSIVE ScaleDivStep(_, _, _, _)
ScaleDivStep(q, r, n, d) ==
    IF n = 0 THEN q
    ELSE IF 2 * r >= d THEN ScaleDivStep(2 * q + 1, 2 * r - d, n - 1, d)
         ELSE ScaleDivStep(2 * q, 2 * r, n - 1, d)

TruncScale(a, n, d) ==
    IF a >= 0 THEN ScaleDivStep(a \div d, a % d, n, d)
    ELSE -ScaleDivStep((-a) \div d, (-a) % d, n, d)

\* the column rounded to the nearest integer
lon2tile_rounded(lon, z) ==
    (TruncScale(lon + 180 * 1000000, z + 1, 360 * 1000000) + 1) \div 2

lon2tile(lon, z) == TruncScale(lon + 180 * 1000000, z, 360 * 1000000)

\* (1 - ln(tan(lat) + sec(lat)) / pi) / 2, truncated to a multiple of 2^-26
Merc26 ==
    (51614921 :> 22283169) @@ (51614935 :> 22283165) @@ (51616011 :> 22282842)
    @@ (51616307 :> 22282753) @@ (51617679 :> 22282341) @@ (51617693 :> 22282337)
    @@ (51617864 :> 22282285) @@ (85054000 :> -6206)

lat2tile(lat, z) == TruncDiv(Merc26[lat], 2 ^ (26 - z))

\* tile2lat(y, zoom) in micro-degrees, for the rows the modelled points meet
Tile2LatTab ==
    (<<2, 0>> :> 85051129) @@ (<<2, 1>> :> 66513260) @@ (<<2, 2>> :> 0)
    @@ (<<3, 0>> :> 85051129) @@ (<<3, 1>> :> 79171335) @@ (<<3, 2>> :> 66513260)
    @@ (<<3, 3>> :> 40979898) @@ (<<4, 0>> :> 85051129) @@ (<<4, 1>> :> 82676285)
    @@ (<<4, 5>> :> 55776573) @@ (<<4, 6>> :> 40979898) @@ (<<5, 0>> :> 85051129)
    @@ (<<5, 1>> :> 83979259) @@ (<<5, 10>> :> 55776573) @@ (<<5, 11>> :> 48922499)
    @@ (<<6, 0>> :> 85051129) @@ (<<6, 1>> :> 84541361) @@ (<<6, 21>> :> 52482780)
    @@ (<<6, 22>> :> 48922499) @@ (<<7, 0>> :> 85051129) @@ (<<7, 1>> :> 84802474)
    @@ (<<7, 42>> :> 52482780) @@ (<<7, 43>> :> 50736455) @@ (<<8, 0>> :> 85051129)
    @@ (<<8, 1>> :> 84928321) @@ (<<8, 85>> :> 51618017) @@ (<<8, 86>> :> 50736455)
    @@ (<<9, 0>> :> 85051129) @@ (<<9, 1>> :> 84990100) @@ (<<9, 170>> :> 51618017)
    @@ (<<9, 171>> :> 51179343) @@ (<<10, 0>> :> 85051129) @@ (<<10, 1>> :> 85020708)
    @@ (<<10, 340>> :> 51618017) @@ (<<10, 341>> :> 51399206) @@ (<<11, 0>> :> 85051129)
    @@ (<<11, 1>> :> 85035942) @@ (<<11, 680>> :> 51618017) @@ (<<11, 681>> :> 51508742)
    @@ (<<12, 0>> :> 85051129) @@ (<<12, 1>> :> 85043541) @@ (<<12, 1360>> :> 51618017)
    @@ (<<12, 1361>> :> 51563412) @@ (<<13, 0>> :> 85051129) @@ (<<13, 1>> :> 85047336)
    @@ (<<13, 2720>> :> 51618017) @@ (<<13, 2721>> :> 51590723) @@ (<<14, -1>> :> 85053024)
    @@ (<<14, 0>> :> 85051129) @@ (<<14, 5440>> :> 51618017) @@ (<<14, 5441>> :> 51604372)
    @@ (<<15, -3>> :> 85053971) @@ (<<15, -2>> :> 85053024) @@ (<<15, 10880>> :> 51618017)
    @@ (<<15, 10881>> :> 51611195) @@ (<<16, -6>> :> 85053971) @@ (<<16, -5>> :> 85053498)
    @@ (<<16, 21760>> :> 51618017) @@ (<<16, 21761>> :> 51614606) @@ (<<17, -12>> :> 85053971)
    @@ (<<17, -11>> :> 85053734) @@ (<<17, 43520>> :> 51618017) @@ (<<17, 43521>> :> 51616311)
    @@ (<<17, 43522>> :> 51614606) @@ (<<18, -24>> :> 85053971) @@ (<<18, -23>> :> 85053853)
    @@ (<<18, 87040>> :> 51618017) @@ (<<18, 87041>> :> 51617164) @@ (<<18, 87042>> :> 51616311)
    @@ (<<18, 87043>> :> 51615458) @@ (<<18, 87044>> :> 51614606)

tile2lat(y, z) == Tile2LatTab[<<z, y>>]

\* int((lon - tile2lon(x)) * tile_size / (tile2lon(x + 1) - tile2lon(x))):
\* the divisor is 360 / 2^z, so the quotient is the world pixel column of
\* lon minus tile_size * x (lon lies in column x wherever this is used).
pixel_x(lon, x, z) ==
    TruncScale(lon + 180 * 1000000, z + 8, 360 * 1000000) - tile_size * x

\* int((lat - tile2lat(y)) * tile_size / (tile2lat(y + 1) - tile2lat(y)))
pixel_y(lat, y, z) ==
    TruncScale(tile2lat(y, z) - lat, 8, tile2lat(y, z) - tile2lat(y + 1, z))

\* int(inf) and math.tan(inf) raise
CoordsRaise(center) == ~IsFinite(center[1]) \/ ~IsFinite(center[2])

\* lines 167-171: the tile key of a finite focal point
TileKey(center, z) == <<lon2tile(center[1].v, z), lat2tile(center[2].v, z), z>>

\* need_new_tile without its test of the right edge
need_new_tile_no_right(new_x, new_y, new_lon, new_lat) ==
    IF last_tile_coords = NoCoords THEN TRUE
    ELSE IF \/ last_tile_coords[3] # zoom
            \/ last_tile_coords[1] # new_x
            \/ last_tile_coords[2] # new_y THEN TRUE
    ELSE LET current_pixel_x == pixel_x(new_lon, last_tile_coords[1], zoom)
             current_pixel_y == pixel_y(new_lat, last_tile_coords[2], zoom)
         IN  \/ current_pixel_x < edge_buffer_pixels
             \/ current_pixel_y < edge_buffer_pixels
             \/ current_pixel_y > tile_size - edge_buffer_pixels

need_new_tile(new_x, new_y, new_lon, new_lat) ==
    IF last_tile_coords = NoCoords THEN TRUE
    ELSE IF last_tile_coords[3] # zoom \/ last_tile_coords[1] # new_x
            \/ last_tile_coords[2] # new_y THEN TRUE
    ELSE LET current_pixel_x == pixel_x(new_lon, last_tile_coords[1], zoom)
             current_pixel_y == pixel_y(new_lat, last_tile_coords[2], zoom)
         IN  \/ current_pixel_x < edge_buffer_pixels
             \/ current_pixel_x > tile_size - edge_buffer_pixels
             \/ current_pixel_y < edge_buffer_pixels
             \/ current_pixel_y > tile_size - edge_buffer_pixels

----------------------------------------------------------------------------
(* Tile cache files *)

EmptyCache == [k \in {} |-> NoTile]

get_tile_file(key) == IF key \in DOMAIN cache THEN cache[key] ELSE NoTile

\* a lookup that never finds the file
load_cached_tile_blind(x, y, z) == NoTile

\* load_cached_tile: None when the file is missing or pygame cannot load it
load_cached_tile(x, y, z) ==
    LET file == get_tile_file(<<x, y, z>>)
    IN  IF file.img \in {"none", "corrupt"} THEN NoTile ELSE file

\* save_tile_to_cache: pygame.image.save may fail, before or after it has
\* started to write the file; the exception is swallowed.
SaveOutcomes == {"saved", "failed", "partial"}

save_tile_to_cache(files, x, y, z, tile_data, outcome) ==
    CASE outcome = "saved"   -> (<<x, y, z>> :> tile_data) @@ files
      [] outcome = "partial" -> (<<x, y, z>> :> CorruptFile) @@ files
      [] OTHER               -> files

----------------------------------------------------------------------------
(* Fix events: the 15 positional arguments of the org.gpsd "fix" signal,   *)
(* of which the model keeps the count, latitude, longitude and mode.       *)

FixEvent(n, lat, lon, mode) == [n |-> n, lat |-> lat, lon |-> lon, mode |-> mode]

Points == {DefaultCenter, InnerPoint}

FixEvents ==
    {FixEvent(FixFields, Num(p[2]), Num(p[1]), Num(3)) : p \in Points}
    \cup {FixEvent(FixFields, lat, Num(DefaultCenter[1]), Num(3)) : lat \in {Num(0), NaN, Inf, Bad}}
    \cup {FixEvent(FixFields, Num(DefaultCenter[2]), lon, Num(3)) : lon \in {Num(0), NaN}}
    \cup {FixEvent(FixFields - 1, Num(InnerPoint[2]), Num(InnerPoint[1]), Num(3)),
          FixEvent(FixFields, Num(InnerPoint[2]), Num(InnerPoint[1]), Bad)}

\* safe_float without its math.isnan test
safe_float_no_isnan(value) ==
    IF value.k \in {"num", "inf", "nan"} THEN value ELSE None

\* safe_float: NaN and unparseable values become None
safe_float(value) ==
    IF value.k \in {"num", "inf"} THEN value ELSE None

\* int(mode) raises on a value that is not a finite number
ParseRaises(ev) == ~IsFinite(ev.mode)

----------------------------------------------------------------------------
(* Locals of one load_map_tile call; url is the tile key of the request,   *)
(* response what came back for it.                                         *)

NoLocals ==
    [current_time |-> 0, x |-> 0, y |-> 0, url |-> NoCoords, response |-> "none"]

ReturnPc(t) == IF t = "fix" THEN "idle" ELSE "frame"

\* the cooldown test with a one-second window
in_cooldown_short(current_time) ==
    current_time - last_tile_download_time < download_cooldown - 1

\* line 164
in_cooldown(current_time) ==
    current_time - last_tile_download_time < download_cooldown

\* a finished fallback tile, made after the fetch of key failed
FallbackFor(tile, key) ==
    tile.img = "blank" /\ tile.key = key /\ tile.fill /\ tile.draw

\* a tile as loaded, or a fallback pattern drawn to its end
Complete(tile) ==
    \/ tile.img = "tile" /\ ~tile.fill /\ ~tile.draw
    \/ tile.fill /\ tile.draw

\* lines 202, 218, 222: where a response leads
Responses == {"ok", "status", "exception"}

\* every response taken for a tile
after_response_any(response) == "l214"

after_response(response) == IF response = "ok" THEN "l214" ELSE "l139"

----------------------------------------------------------------------------
(* State after GPSMapDisplay.__init__: the first load_map_tile has run on  *)
(* the main thread, the D-Bus thread waits for its first signal.           *)

InitialKey == TileKey(<<Num(DefaultCenter[1]), Num(DefaultCenter[2])>>, InitialZoom)

InitialLoads ==
    { [tile |-> TileImage(InitialKey), files |-> (InitialKey :> TileImage(InitialKey)),
       fetched |-> FALSE],
      [tile |-> TileImage(InitialKey), files |-> (InitialKey :> TileImage(InitialKey)),
       fetched |-> TRUE],
      [tile |-> TileImage(InitialKey), files |-> (InitialKey :> CorruptFile),
       fetched |-> TRUE],
      [tile |-> [NewSurface EXCEPT !.key = InitialKey, !.fill = TRUE, !.draw = TRUE],
       files |-> EmptyCache, fetched |-> TRUE] }

Init ==
    /\ now = download_cooldown
    /\ zoom = InitialZoom
    /\ map_center = <<Num(DefaultCenter[1]), Num(DefaultCenter[2])>>
    /\ current_location = NoLocation
    /\ last_tile_coords = InitialKey
    /\ \E first \in InitialLoads :
          /\ map_tile = first.tile
          /\ cache = first.files
          /\ last_tile_download_time = IF first.fetched THEN now ELSE 0
    /\ pc = [t \in Threads |-> ReturnPc(t)]
    /\ loc = [t \in Threads |-> NoLocals]
    /\ calls = 0
    /\ fix_result = "none"
    /\ store_time = 0

----------------------------------------------------------------------------
(* The clock *)

Tick ==
    /\ now < download_cooldown + MaxTime
    /\ pc["render"] # "raised"
    /\ now' = now + 1
    /\ UNCHANGED <<zoom, map_center, current_location, map_tile,
                   last_tile_coords, last_tile_download_time, cache,
                   pc, loc, calls, fix_result, store_time>>

----------------------------------------------------------------------------
(* D-Bus thread: on_gpsd_fix up to its call of load_map_tile *)

on_gpsd_fix(ev) ==
    /\ pc["fix"] = "idle"
    /\ pc["render"] # "raised"
    /\ LET lat == safe_float(ev.lat)
           lon == safe_float(ev.lon)
           new_location == [latitude |-> lat, longitude |-> lon, mode |-> ev.mode.v]
       IN  IF ev.n = FixFields /\ ~ParseRaises(ev) /\ Truthy(lat) /\ Truthy(lon)
           THEN /\ current_location' = new_location
                /\ map_center' = <<lon, lat>>
                /\ pc' = [pc EXCEPT !["fix"] = "l161"]
                /\ fix_result' = "accepted"
                /\ calls < MaxCalls
                /\ calls' = calls + 1
           ELSE /\ UNCHANGED <<current_location, map_center, pc, calls>>
                /\ fix_result' = "dropped"
    /\ UNCHANGED <<now, zoom, map_tile, last_tile_coords,
                   last_tile_download_time, cache, loc, store_time>>

----------------------------------------------------------------------------
(* Render thread: the frame loop of run() *)

KeyZoom(delta) ==
    /\ pc["render"] = "frame"
    /\ calls < MaxCalls
    /\ calls' = calls + 1
    /\ zoom' = IF delta > 0 THEN Min(zoom + 1, ZoomMax) ELSE Max(zoom - 1, ZoomMin)
    /\ pc' = [pc EXCEPT !["render"] = "l161"]
    /\ UNCHANGED <<now, map_center, current_location, map_tile,
                   last_tile_coords, last_tile_download_time, cache,
                   loc, fix_result, store_time>>

\* the event queue of this frame is empty: on to lines 418-421
EndEvents ==
    /\ pc["render"] = "frame"
    /\ pc' = [pc EXCEPT !["render"] = "l421"]
    /\ UNCHANGED <<now, zoom, map_center, current_location, map_tile,
                   last_tile_coords, last_tile_download_time, cache, loc,
                   calls, fix_result, store_time>>

\* lines 315-334: blit self.map_tile, then on to the next frame.  The tile
\* arithmetic is outside any try: where it raises, the exception leaves
\* run() and main() ends the process.
draw_map ==
    /\ pc["render"] = "l421"
    /\ pc' = [pc EXCEPT !["render"] =
                 IF map_tile # NoTile /\ CoordsRaise(map_center)
                 THEN "raised" ELSE "frame"]
    /\ UNCHANGED <<now, zoom, map_center, current_location, map_tile,
                   last_tile_coords, last_tile_download_time, cache, loc,
                   calls, fix_result, store_time>>

----------------------------------------------------------------------------
(* load_map_tile, run by thread t *)

Return(t) ==
    /\ pc' = [pc EXCEPT ![t] = ReturnPc(t)]
    /\ loc' = [loc EXCEPT ![t] = NoLocals]

\* the same with line 180 moved above the two early returns
l161_recording(t) ==
    /\ pc[t] = "l161"
    /\ last_tile_coords' = IF CoordsRaise(map_center) THEN last_tile_coords
                           ELSE TileKey(map_center, zoom)
    /\ LET entry == [NoLocals EXCEPT !.current_time = now]
       IN  IF in_cooldown(now)
           THEN Return(t) /\ UNCHANGED store_time
           ELSE IF CoordsRaise(map_center)
           THEN /\ loc' = [loc EXCEPT ![t] = entry]
                /\ pc' = [pc EXCEPT ![t] = "l139"]
                /\ UNCHANGED store_time
           ELSE LET lon == map_center[1].v
                    lat == map_center[2].v
                    x == TileKey(map_center, zoom)[1]
                    y == TileKey(map_center, zoom)[2]
                IN  IF ~need_new_tile(x, y, lon, lat) /\ map_tile # NoTile
                    THEN Return(t) /\ UNCHANGED store_time
                    ELSE /\ loc' = [loc EXCEPT ![t] = [entry EXCEPT !.x = x, !.y = y]]
                         /\ pc' = [pc EXCEPT ![t] = "l180"]
                         /\ store_time' = now
    /\ UNCHANGED <<now, zoom, map_center, current_location, map_tile,
                   last_tile_download_time, cache, calls, fix_result>>

\* lines 161-178: cooldown gate, tile key, need_new_tile
l161(t) ==
    /\ pc[t] = "l161"
    /\ LET entry == [NoLocals EXCEPT !.current_time = now]
       IN  IF in_cooldown(now)
           THEN Return(t) /\ UNCHANGED store_time
           ELSE IF CoordsRaise(map_center)
           THEN /\ loc' = [loc EXCEPT ![t] = entry]
                /\ pc' = [pc EXCEPT ![t] = "l139"]
                /\ UNCHANGED store_time
           ELSE LET lon == map_center[1].v
                    lat == map_center[2].v
                    x == TileKey(map_center, zoom)[1]
                    y == TileKey(map_center, zoom)[2]
                IN  IF ~need_new_tile(x, y, lon, lat) /\ map_tile # NoTile
                    THEN Return(t) /\ UNCHANGED store_time
                    ELSE /\ loc' = [loc EXCEPT ![t] = [entry EXCEPT !.x = x, !.y = y]]
                         /\ pc' = [pc EXCEPT ![t] = "l180"]
                         /\ store_time' = now
    /\ UNCHANGED <<now, zoom, map_center, current_location, map_tile,
                   last_tile_coords, last_tile_download_time, cache,
                   calls, fix_result>>

\* lines 180-187: record the key, look in the cache
l180(t) ==
    /\ pc[t] = "l180"
    /\ last_tile_coords' = <<loc[t].x, loc[t].y, zoom>>
    /\ LET cached_tile == load_cached_tile(loc[t].x, loc[t].y, zoom)
       IN  IF cached_tile # NoTile
           THEN /\ map_tile' = cached_tile
                /\ Return(t)
           ELSE /\ map_tile' = map_tile
                /\ loc' = loc
                /\ pc' = [pc EXCEPT ![t] = "l191"]
    /\ UNCHANGED <<now, zoom, map_center, current_location,
                   last_tile_download_time, cache, calls, fix_result, store_time>>

\* lines 191-200: start the cooldown, send the request
l191(t) ==
    /\ pc[t] = "l191"
    /\ last_tile_download_time' = loc[t].current_time
    /\ loc' = [loc EXCEPT ![t].url = <<loc[t].x, loc[t].y, zoom>>,
                           ![t].current_time = 0]
    /\ pc' = [pc EXCEPT ![t] = "l200"]
    /\ UNCHANGED <<now, zoom, map_center, current_location, map_tile,
                   last_tile_coords, cache, calls,
                   fix_result, store_time>>

\* lines 200-211: the response arrives; a 200 with a decodable image
\* becomes self.map_tile
l200(t) ==
    /\ pc[t] = "l200"
    /\ \E response \in Responses :
          /\ pc' = [pc EXCEPT ![t] = after_response(response)]
          /\ loc' = [loc EXCEPT ![t].response = response]
          /\ map_tile' = IF response = "ok" THEN TileImage(loc[t].url) ELSE map_tile
    /\ UNCHANGED <<now, zoom, map_center, current_location,
                   last_tile_coords, last_tile_download_time, cache,
                   calls, fix_result, store_time>>

\* line 214: save_tile_to_cache(x, y, self.zoom, self.map_tile)
l214(t) ==
    /\ pc[t] = "l214"
    /\ \E outcome \in SaveOutcomes :
          cache' = save_tile_to_cache(cache, loc[t].x, loc[t].y, zoom, map_tile, outcome)
    /\ Return(t)
    /\ UNCHANGED <<now, zoom, map_center, current_location, map_tile,
                   last_tile_coords, last_tile_download_time, calls, fix_result, store_time>>

----------------------------------------------------------------------------
(* create_fallback_tile, run by thread t: every drawing call goes through  *)
(* the attribute self.map_tile                                             *)

\* line 139
l139(t) ==
    /\ pc[t] = "l139"
    /\ map_tile' = [NewSurface EXCEPT !.key = loc[t].url]
    /\ pc' = [pc EXCEPT ![t] = "l140"]
    /\ UNCHANGED <<now, zoom, map_center, current_location,
                   last_tile_coords, last_tile_download_time, cache,
                   loc, calls, fix_result, store_time>>

\* line 140
l140(t) ==
    /\ pc[t] = "l140"
    /\ map_tile' = [map_tile EXCEPT !.fill = TRUE, !.draw = FALSE]
    /\ pc' = [pc EXCEPT ![t] = "l143"]
    /\ UNCHANGED <<now, zoom, map_center, current_location,
                   last_tile_coords, last_tile_download_time, cache,
                   loc, calls, fix_result, store_time>>

\* lines 143-156
l143(t) ==
    /\ pc[t] = "l143"
    /\ map_tile' = [map_tile EXCEPT !.draw = TRUE]
    /\ Return(t)
    /\ UNCHANGED <<now, zoom, map_center, current_location,
                   last_tile_coords, last_tile_download_time, cache,
                   calls, fix_result, store_time>>

----------------------------------------------------------------------------

Next ==
    \/ Tick
    \/ \E ev \in FixEvents : on_gpsd_fix(ev)
    \/ \E delta \in {-1, 1} : KeyZoom(delta)
    \/ EndEvents
    \/ draw_map
    \/ \E t \in Threads :
          \/ l161(t) \/ l180(t) \/ l191(t) \/ l200(t) \/ l214(t)
          \/ l139(t) \/ l140(t) \/ l143(t)

Spec == Init /\ [][Next]_vars

----------------------------------------------------------------------------
(* The program at any zoom level.  A later moment of a run: zoom keys have *)
(* brought self.zoom to any level, every call so far was served from the   *)
(* cache, which holds the default centre's tile of every level; the call   *)
(* counter and the histories restart here.  Fixes arrive at the edge       *)
(* points; a call is followed up to its cache lookup.                      *)

EdgePoints ==
    {DefaultCenter, InnerPoint, LeftIn, LeftOut, RightOut, RightIn,
     TopIn, TopOut, BottomOut, BottomIn, EastEdge, HighLat}

EdgeEvents == {FixEvent(FixFields, Num(p[2]), Num(p[1]), Num(3)) : p \in EdgePoints}

CenterKey(z) == TileKey(<<Num(DefaultCenter[1]), Num(DefaultCenter[2])>>, z)

InitAnyZoom ==
    /\ now = download_cooldown
    /\ zoom \in ZoomMin .. ZoomMax
    /\ map_center = <<Num(DefaultCenter[1]), Num(DefaultCenter[2])>>
    /\ current_location = NoLocation
    /\ last_tile_coords = CenterKey(zoom)
    /\ map_tile = TileImage(CenterKey(zoom))
    /\ cache = [k \in {CenterKey(z) : z \in ZoomMin .. ZoomMax} |-> TileImage(k)]
    /\ last_tile_download_time = 0
    /\ pc = [t \in Threads |-> ReturnPc(t)]
    /\ loc = [t \in Threads |-> NoLocals]
    /\ calls = 0
    /\ fix_result = "none"
    /\ store_time = 0

NextAnyZoom ==
    \/ \E ev \in EdgeEvents : on_gpsd_fix(ev)
    \/ \E delta \in {-1, 1} : KeyZoom(delta)
    \/ \E t \in Threads : l161(t) \/ l180(t)

SpecAnyZoom == InitAnyZoom /\ [][NextAnyZoom]_vars

TypeOK ==
    /\ now \in download_cooldown .. download_cooldown + MaxTime
    /\ zoom \in ZoomMin .. ZoomMax
    /\ pc["fix"] \in {"idle", "l161", "l180", "l191", "l200", "l214", "l139", "l140", "l143"}
    /\ pc["render"] \in {"frame", "l421", "raised", "l161", "l180", "l191", "l200", "l214", "l139", "l140", "l143"}
    /\ calls \in 0 .. MaxCalls

----------------------------------------------------------------------------
(* Properties *)

Failures == {"status", "exception"}

\* thread t takes a step
Steps(t) == pc'[t] # pc[t]

C2_ZoomForcesReload ==
    pc["render"] \in {"frame", "l421"} => last_tile_coords[3] = zoom

\* C3: after a failed fetch has left a finished fallback tile for key k, a
\* call that is not in the cooldown and whose focal point lies in k at the
\* same zoom goes on to the tile store to obtain k again.
C3_RetryAfterFallback ==
    [][\A t \in Threads :
          (/\ pc[t] = "l161" /\ Steps(t)
           /\ now - last_tile_download_time >= download_cooldown
           /\ ~CoordsRaise(map_center)
           /\ FallbackFor(map_tile, TileKey(map_center, zoom)))
              => pc'[t] = "l180"]_vars

\* C4: a call whose request failed (non-200, timeout, transport or decode
\* error) runs create_fallback_tile and nothing else, writes no cache file,
\* and returns normally with self.map_tile not None and carrying the
\* fallback drawing.
C4_FallbackOnFailure ==
    /\ [](\A t \in Threads :
             loc[t].response \in Failures => pc[t] \in {"l139", "l140", "l143"})
    /\ [][\A t \in Threads :
             (loc[t].response \in Failures /\ Steps(t))
                 => /\ cache' = cache
                    /\ map_tile' # NoTile
                    /\ pc[t] = "l143"
                         => (pc'[t] = ReturnPc(t) /\ map_tile'.draw)]_vars

\* both threads are back from a call that ended with a finished fallback
\* tile for a key that has no cache file
C4_Witness ==
    /\ \A t \in Threads : pc[t] = ReturnPc(t)
    /\ calls > 0
    /\ map_tile.key \notin {NoCoords, InitialKey}
    /\ FallbackFor(map_tile, map_tile.key)
    /\ map_tile.key \notin DOMAIN cache

\* C5 as stated: a call that looks up a key whose cache file exists makes no
\* request and serves the tile from the file.
C5_CacheFileShortCircuit ==
    [][\A t \in Threads :
          (/\ pc[t] = "l180" /\ Steps(t)
           /\ <<loc[t].x, loc[t].y, zoom>> \in DOMAIN cache)
              => /\ pc'[t] = ReturnPc(t)
                 /\ map_tile' = cache[<<loc[t].x, loc[t].y, zoom>>]]_vars

\* C5 amended: a call that looks up a key whose cache file exists and can
\* be decoded makes no request and serves the tile from the file.
C5_DecodableFileShortCircuit ==
    [][\A t \in Threads :
          (/\ pc[t] = "l180" /\ Steps(t)
           /\ <<loc[t].x, loc[t].y, zoom>> \in DOMAIN cache
           /\ cache[<<loc[t].x, loc[t].y, zoom>>].img # "corrupt")
              => /\ pc'[t] = ReturnPc(t)
                 /\ map_tile' = cache[<<loc[t].x, loc[t].y, zoom>>]]_vars

\* a handler's call reached the tile store and no request was ever sent:
\* the tile on display came from its cache file
C5_Witness ==
    /\ \A t \in Threads : pc[t] = ReturnPc(t)
    /\ store_time # 0
    /\ last_tile_download_time = 0
    /\ last_tile_coords \in DOMAIN cache
    /\ map_tile = cache[last_tile_coords]

\* the claim's invalid fix: not 15 fields, or a latitude or longitude that
\* is NaN or cannot be parsed
InvalidFix(ev) ==
    \/ ev.n # FixFields
    \/ ev.lat.k \in {"nan", "bad"}
    \/ ev.lon.k \in {"nan", "bad"}

\* C6: an invalid fix event leaves current_location and map_center as they
\* were and starts no load_map_tile call: every step either changes none of
\* these or is not the handling of an invalid event.
C6_InvalidFixRejected ==
    [][\/ /\ UNCHANGED <<current_location, map_center, calls>>
          /\ pc'["fix"] = "idle"
       \/ \A ev \in FixEvents : InvalidFix(ev) => ~on_gpsd_fix(ev)]_vars

\* a fix event has been dropped while a position was held
C6_Witness ==
    /\ fix_result = "dropped"
    /\ current_location # NoLocation
    /\ pc["fix"] = "idle"

\* the claim's valid fix: latitude and longitude present and finite
ValidFix(ev) ==
    ev.n = FixFields /\ IsFinite(ev.lat) /\ IsFinite(ev.lon) /\ IsFinite(ev.mode)

\* C7: a fix event whose latitude and longitude are finite, 0.0 included,
\* becomes current_location and map_center; any other event changes neither.
C7_LastValidFixWins ==
    [][\A ev \in FixEvents :
          on_gpsd_fix(ev)
              => IF ValidFix(ev)
                 THEN /\ current_location'.latitude = ev.lat
                      /\ current_location'.longitude = ev.lon
                      /\ map_center' = <<ev.lon, ev.lat>>
                 ELSE UNCHANGED <<current_location, map_center>>]_vars

\* C8: current_location is None or holds a finite latitude and longitude.
C8_HeldFixIsFinite ==
    \/ current_location = NoLocation
    \/ IsFinite(current_location.latitude) /\ IsFinite(current_location.longitude)

\* C9: the two threads never have an HTTP tile request in progress at the
\* same time.
C9_OneFetchInFlight ==
    ~(pc["fix"] = "l200" /\ pc["render"] = "l200")

\* C10: the surface draw_map blits is a tile as loaded or a fallback tile
\* drawn to its end (stated for the frames drawn at a finite focal point).
C10_DrawsCompleteTile ==
    [][(draw_map /\ ~CoordsRaise(map_center))
          => (map_tile = NoTile \/ Complete(map_tile))]_vars

\* C11: the thread that runs the frame loop never reads the tile cache,
\* writes it or sends a tile request.
C11_NoStoreOnRender ==
    pc["render"] \notin {"l180", "l191", "l200", "l214"}

\* C12: no fix event and no tile outcome ends the frame loop: run() is never
\* left through an exception.
C12_RenderNeverRaises ==
    pc["render"] # "raised"

\* distance in pixels from an in-tile offset to the nearest tile edge
EdgeDistance(px, py) ==
    Min(Min(px, tile_size - px), Min(py, tile_size - py))

\* C13: for a focal point in the loaded tile at the loaded zoom, the call
\* asks for a new tile exactly when the point's pixel offset is less than
\* edge_buffer_pixels from the left, right, top or bottom edge.
C13_EdgeBufferTrigger ==
    [][\A t \in Threads :
          (/\ pc[t] = "l161" /\ Steps(t)
           /\ ~in_cooldown(now)
           /\ map_tile # NoTile
           /\ last_tile_coords = TileKey(map_center, zoom))
              => LET px == pixel_x(map_center[1].v, last_tile_coords[1], zoom)
                     py == pixel_y(map_center[2].v, last_tile_coords[2], zoom)
                 IN  (pc'[t] = "l180") <=> (EdgeDistance(px, py) < edge_buffer_pixels)]_vars

\* the fix thread asked for a new tile for a point of the loaded tile that
\* is near the right edge only
C13_Witness ==
    /\ pc["fix"] = "l180"
    /\ zoom = InitialZoom
    /\ map_center = <<Num(RightIn[1]), Num(RightIn[2])>>
    /\ last_tile_coords = TileKey(map_center, zoom)

\* C14: the tile key recorded in last_tile_coords, and used for the cache
\* file and the request, has 0 <= x < 2^zoom and 0 <= y < 2^zoom.
C14_KeysInRange ==
    /\ last_tile_coords[1] \in 0 .. 2 ^ last_tile_coords[3] - 1
    /\ last_tile_coords[2] \in 0 .. 2 ^ last_tile_coords[3] - 1

\* C15: self.zoom is always an integer from 2 to 18; a zoom-in key at 18
\* and a zoom-out key at 2 leave it as it is.
C15_ZoomBounds ==
    /\ [](zoom \in 2 .. 18)
    /\ [][/\ (zoom = 18 /\ KeyZoom(1)) => zoom' = 18
          /\ (zoom = 2 /\ KeyZoom(-1)) => zoom' = 2]_vars

\* a zoom-in key has been pressed at zoom 18: its call is about to start
\* and the tile on display is still the one of level 18
C15_Witness ==
    /\ pc["render"] = "l161"
    /\ zoom = 18
    /\ last_tile_coords[3] = 18

\* C16 as stated: a call at zoom 16 for longitude -0.787166 computes tile
\* column 32676.
C16_DefaultColumn32676 ==
    [][\A t \in Threads :
          (/\ pc[t] = "l161" /\ pc'[t] = "l180"
           /\ zoom = 16 /\ map_center[1] = Num(-787166))
              => loc'[t].x = 32676]_vars

\* C16 amended: a call at zoom 16 for longitude -0.787166 computes tile
\* column 32624 = trunc((lon + 180) / 360 * 2^16).
C16_DefaultColumn32624 ==
    [][\A t \in Threads :
          (/\ pc[t] = "l161" /\ pc'[t] = "l180"
           /\ zoom = 16 /\ map_center[1] = Num(-787166))
              => loc'[t].x = 32624]_vars

\* a fix at the default longitude has had its tile column computed at zoom 16
C16_Witness ==
    /\ pc["fix"] = "l180"
    /\ zoom = 16
    /\ map_center[1] = Num(-787166)
    /\ loc["fix"].x = 32624

\* C17: every cache file that can be decoded holds the image downloaded
\* for the key in its name.
C17_CacheFileMatchesKey ==
    \A k \in DOMAIN cache : cache[k].img # "corrupt" => cache[k] = TileImage(k)

\* C18: when draw_map blits a real tile at a finite focal point, the key
\* it derives the blit offset from, the tile of map_center at self.zoom, is
\* the key recorded in last_tile_coords.
C18_TileDrawnAtOwnKey ==
    [][(draw_map /\ map_tile.img = "tile" /\ ~CoordsRaise(map_center))
          => TileKey(map_center, zoom) = last_tile_coords]_vars

\* C19: a call that sends a tile request began at least download_cooldown
\* after the call that sent the request before it (the time that call
\* recorded in last_tile_download_time).
C19_RequestsCooldownApart ==
    [][\A t \in Threads :
          (pc[t] = "l191" /\ Steps(t) /\ last_tile_download_time # 0)
              => loc[t].current_time - last_tile_download_time >= download_cooldown]_vars

\* C20: a call that returns early, which it does only in the cooldown or
\* with the focal point's tile loaded, leaves map_tile, last_tile_coords,
\* last_tile_download_time and the cache files as they were; it goes
\* straight back to its caller, past the cache lookup and the request.
C20_EarlyReturnChangesNothing ==
    [][\A t \in Threads :
          (pc[t] = "l161" /\ pc'[t] = ReturnPc(t))
              => /\ UNCHANGED <<map_tile, last_tile_coords,
                                last_tile_download_time, cache>>
                 /\ \/ now - last_tile_download_time < download_cooldown
                    \/ /\ map_tile # NoTile
                       /\ last_tile_coords = TileKey(map_center, zoom)]_vars

\* outside any cooldown, the call of a fix inside the loaded tile has
\* returned without going to the tile store
C20_Witness ==
    /\ pc["fix"] = "idle"
    /\ fix_result = "accepted"
    /\ calls = 1
    /\ store_time = 0
    /\ last_tile_download_time = 0
    /\ map_center = <<Num(InnerPoint[1]), Num(InnerPoint[2])>>

====
